---- MODULE Spec2Model ----
(***************************************************************************)
(* The content publication and engagement model of the portfolio           *)
(* application: the relational store of models.py and the request          *)
(* handlers of routes.py that read and write it.                           *)
(*                                                                         *)
(* Tables without a business key beyond their columns are bags of rows     *)
(* (the surrogate id and the timestamps are left out), so that two rows    *)
(* with the same columns are representable and the UNIQUE constraints of   *)
(* models.py are something the store has to enforce at commit.             *)
(***************************************************************************)
EXTENDS Integers, Sequences, FiniteSets, Bags, TLC

VARIABLES
    db,         \* the committed store: a record of the tables
    store_up,   \* whether the store accepts a commit
    inflight,   \* per worker, the request it is handling (its open session)
    resp        \* the last response sent, with the branch the handler took

vars == <<db, store_up, inflight, resp>>

(***************************************************************************)
(* Bounds of the model.                                                    *)
(***************************************************************************)
MaxViews == 2
MaxComments == 1
MaxNotifications == 2

(***************************************************************************)
(* The identities the requests range over.                                 *)
(***************************************************************************)
Users == {"ana", "bob"}
ProjectIds == {1, 2}
TagIds == {1, 2}

\* User.is_admin: the flag admin_required tests.
is_admin(u) == u = "ana"

\* The Tag rows seeded at start-up (id, name).
TagName(t) == IF t = 1 THEN "React" ELSE "Python"

DRAFT == "draft"
PUBLISHED == "published"

(***************************************************************************)
(* Helpers: bags of rows, Python builtins.                                 *)
(***************************************************************************)
\* The rows of bag B among `rows`, each with the copies B holds of it.
BagFilter(B, rows) == [r \in rows \cap DOMAIN B |-> B[r]]

\* db.session.add(row)
AddRow(B, row) == B (+) SetToBag({row})

\* Python max(a, b)
max(a, b) == IF a >= b THEN a ELSE b

RECURSIVE lstrip(_)
lstrip(s) == IF s # <<>> /\ Head(s) = " " THEN lstrip(Tail(s)) ELSE s

RECURSIVE rstrip(_)
rstrip(s) == IF s # <<>> /\ s[Len(s)] = " " THEN rstrip(SubSeq(s, 1, Len(s) - 1)) ELSE s

\* strip that leaves the string as submitted.
stripNothing(s) == s

\* Python str.strip(): a string is a sequence of characters.
strip(s) == rstrip(lstrip(s))

(***************************************************************************)
(* The store. A request's session holds its writes until the commit:       *)
(*   set   project id -> the columns its UPDATE assigns                    *)
(*   ins   project id -> the row its INSERT adds                           *)
(*   delp  the project ids it deletes                                      *)
(*   del   per table, the bag of rows it deletes                           *)
(*   add   per table, the bag of rows it adds                              *)
(***************************************************************************)
EmptyRows ==
    [Like |-> EmptyBag, Comment |-> EmptyBag, ProjectTag |-> EmptyBag,
     Notification |-> EmptyBag]

NoWrites == [set |-> <<>>, ins |-> <<>>, delp |-> {}, del |-> EmptyRows, add |-> EmptyRows]

\* A constraint that is declared but not enforced.
UniqueConstraintOff(B) == TRUE

\* UniqueConstraint over all the columns a bag row carries.
UniqueConstraint(B) == \A r \in DOMAIN B : B[r] <= 1

\* The constraints the database checks on the rows of a transaction.
IntegrityOK(d) == UniqueConstraint(d.Like) /\ UniqueConstraint(d.ProjectTag)

\* Every UPDATE of the session finds its row.
Applicable(d, w) == DOMAIN w.set \subseteq DOMAIN d.Project

\* No INSERT of the session reuses a primary key.
PrimaryKeyOK(d, w) == DOMAIN w.ins \cap DOMAIN d.Project = {}

\* Row `row` with the columns of `cols` assigned.
Assign(row, cols) ==
    [c \in DOMAIN row |-> IF c \in DOMAIN cols THEN cols[c] ELSE row[c]]

\* The store d with the writes w applied.
Apply(d, w) ==
    [Project |->
        w.ins @@ [q \in DOMAIN d.Project \ w.delp |->
                     IF q \in DOMAIN w.set THEN Assign(d.Project[q], w.set[q])
                     ELSE d.Project[q]],
     Like |-> (d.Like (-) w.del.Like) (+) w.add.Like,
     Comment |-> (d.Comment (-) w.del.Comment) (+) w.add.Comment,
     ProjectTag |-> (d.ProjectTag (-) w.del.ProjectTag) (+) w.add.ProjectTag,
     Notification |-> (d.Notification (-) w.del.Notification) (+) w.add.Notification]

\* The model keeps the counters that only grow within its bounds.
WithinBounds(d) ==
    /\ BagCardinality(d.Comment) <= MaxComments
    /\ BagCardinality(d.Notification) <= MaxNotifications
    /\ \A p \in DOMAIN d.Project : d.Project[p].views <= MaxViews
    /\ DOMAIN d.Project \subseteq ProjectIds

\* The 500 handler: db.session.rollback(), nothing of the request persists.
internal_error(error) ==
    /\ UNCHANGED db
    /\ resp' = [op |-> "internal_error", code |-> 500, error |-> error]

\* A commit that, when it fails, leaves the rows the session added and
\* deleted in the store and drops its changes to the project rows.
CommitWithoutRollback(w, ok) ==
    IF /\ store_up
       /\ Applicable(db, w)
       /\ PrimaryKeyOK(db, w)
       /\ IntegrityOK(Apply(db, w))
    THEN /\ WithinBounds(Apply(db, w))
         /\ db' = Apply(db, w)
         /\ resp' = ok
    ELSE /\ db' = Apply(db, [w EXCEPT !.set = <<>>, !.ins = <<>>, !.delp = {}])
         /\ resp' = [op |-> "internal_error", code |-> 500, error |-> "OperationalError"]

\* db.session.commit() of a session with writes w; ok is the response the
\* handler sends after it. A store that is down, a stale UPDATE and a broken
\* constraint all raise into the 500 handler.
Commit(w, ok) ==
    IF ~store_up THEN internal_error("OperationalError")
    ELSE IF ~Applicable(db, w) THEN internal_error("StaleDataError")
    ELSE LET after == Apply(db, w) IN
         IF ~(PrimaryKeyOK(db, w) /\ IntegrityOK(after)) THEN internal_error("IntegrityError")
         ELSE /\ WithinBounds(after)
              /\ db' = after
              /\ resp' = ok

(***************************************************************************)
(* Each handler, from the store d it reads, up to its commit: either an    *)
(* early response (commit = FALSE) or the session's writes and the         *)
(* response that follows the commit.                                       *)
(***************************************************************************)
Early(r) == [commit |-> FALSE, writes |-> NoWrites, resp |-> r]
Session(w, r) == [commit |-> TRUE, writes |-> w, resp |-> r]

\* abort(404) of get_or_404 / first_or_404
NotFound == Early([op |-> "not_found", code |-> 404])

\* abort(403) of admin_required
Forbidden == Early([op |-> "forbidden", code |-> 403])

\* The decorator of the admin routes: the actor must be an administrator.
admin_required(u) == is_admin(u)

LikeRow(u, p) == [user_id |-> u, project_id |-> p]
CommentRow(content, u, p) == [content |-> content, user_id |-> u, project_id |-> p]
ProjectTagRow(p, t) == [project_id |-> p, tag_id |-> t]
NotificationRow(title, type, author) ==
    [title |-> title, type |-> type, user_id |-> author]

\* The rows of bag B that belong to project p.
RowsOf(B, p) == BagFilter(B, {r \in DOMAIN B : r.project_id = p})

(***************************************************************************)
(* toggle_like                                                             *)
(***************************************************************************)
\* Like.query.filter_by(user_id=u, project_id=p).first()
existing_like(d, u, p) == CopiesIn(LikeRow(u, p), d.Like) > 0

\* UnlikeCount without the decrement.
UnlikeCountKept(c) == max(0, c)

\* likes_count after an unlike.
UnlikeCount(c) == max(0, c - 1)

\* LikeCount without the increment.
LikeCountKept(c) == c

\* likes_count after a like.
LikeCount(c) == c + 1

\* NotifyAuthor without the comparison with the actor.
NotifyAuthorAlways(author_id, u) == TRUE

\* `if project.author_id != current_user.id`
NotifyAuthor(author_id, u) == author_id # u

\* The notification rows a like or a comment of u on project p adds.
AuthorNotification(d, u, p, title, type) ==
    IF NotifyAuthor(d.Project[p].author_id, u)
    THEN SetToBag({NotificationRow(title, type, d.Project[p].author_id)})
    ELSE EmptyBag

ToggleLike(d, u, p) ==
    IF p \notin DOMAIN d.Project THEN NotFound
    ELSE IF existing_like(d, u, p)
    THEN Session([NoWrites EXCEPT
                     !.set = p :> [likes_count |-> UnlikeCount(d.Project[p].likes_count)],
                     !.del.Like = SetToBag({LikeRow(u, p)})],
                 [op |-> "toggle_like", code |-> 200, liked |-> FALSE])
    ELSE Session([NoWrites EXCEPT
                     !.set = p :> [likes_count |-> LikeCount(d.Project[p].likes_count)],
                     !.add.Like = SetToBag({LikeRow(u, p)}),
                     !.add.Notification = AuthorNotification(d, u, p, "New Like", "success")],
                 [op |-> "toggle_like", code |-> 200, liked |-> TRUE])

(***************************************************************************)
(* add_comment                                                             *)
(***************************************************************************)
\* CommentCount without the increment.
CommentCountKept(c) == c

\* comments_count after a comment.
CommentCount(c) == c + 1

\* `if not content`
EmptyContent(content) == content = <<>>

AddComment(d, u, p, raw) ==
    IF p \notin DOMAIN d.Project THEN NotFound
    ELSE IF EmptyContent(strip(raw))
    THEN Early([op |-> "add_comment", code |-> 302, flash |-> "Comment cannot be empty"])
    ELSE Session([NoWrites EXCEPT
                     !.set = p :> [comments_count |-> CommentCount(d.Project[p].comments_count)],
                     !.add.Comment = SetToBag({CommentRow(strip(raw), u, p)}),
                     !.add.Notification = AuthorNotification(d, u, p, "New Comment", "info")],
                 [op |-> "add_comment", code |-> 302, flash |-> "Comment added successfully"])

(***************************************************************************)
(* admin_save_project                                                      *)
(*                                                                         *)
(* A form is [project_id, title, description, category_id, status, tags]; *)
(* project_id and category_id are 0 when the field is absent, status is   *)
(* "" when absent, tags is the list request.form.getlist('tags') returns. *)
(* The columns no modelled query reads (content, github_url, demo_url,    *)
(* is_featured, image_url) are left out of the row.                       *)
(***************************************************************************)
\* The largest member of a non-empty set of integers.
MaxOf(S) == CHOOSE x \in S : \A y \in S : y <= x

\* The id the store gives a new project row.
NewProjectId(P) == IF DOMAIN P = {} THEN 1 ELSE MaxOf(DOMAIN P) + 1

\* Project(author_id=current_user.id) with the column defaults.
NewProject(u) ==
    [title |-> <<>>, description |-> <<>>, category_id |-> 0, status |-> DRAFT,
     author_id |-> u, views |-> 0, likes_count |-> 0, comments_count |-> 0]

\* Status handling that publishes whatever the form says.
FormStatusPublished(status) == PUBLISHED

\* "Handle status"
FormStatus(status) == IF status = "published" THEN PUBLISHED ELSE DRAFT

\* "Update project fields": the columns the form assigns.
FormColumns(f) ==
    [title |-> strip(f.title), description |-> strip(f.description),
     category_id |-> f.category_id, status |-> FormStatus(f.status)]

\* The columns of `cols` whose value differs from the loaded row: the ones
\* the UPDATE of the flush names.
Changed(row, cols) ==
    [c \in {x \in DOMAIN cols : cols[x] # row[x]} |-> cols[c]]

\* "Add new tags": one row per submitted id.
RECURSIVE NewProjectTags(_, _)
NewProjectTags(p, tag_ids) ==
    IF tag_ids = <<>> THEN EmptyBag
    ELSE SetToBag({ProjectTagRow(p, Head(tag_ids))}) (+) NewProjectTags(p, Tail(tag_ids))

\* HandleTags that replaces the rows whatever the submitted list.
HandleTagsAlways(d, p, tag_ids) ==
    [del |-> RowsOf(d.ProjectTag, p), add |-> NewProjectTags(p, tag_ids)]

\* "Handle tags": the ProjectTag rows the session deletes and adds.
HandleTags(d, p, tag_ids) ==
    IF tag_ids # <<>>
    THEN [del |-> RowsOf(d.ProjectTag, p), add |-> NewProjectTags(p, tag_ids)]
    ELSE [del |-> EmptyBag, add |-> EmptyBag]

AdminSaveProject(d, u, f) ==
    IF ~admin_required(u) THEN Forbidden
    ELSE IF f.project_id # 0 /\ f.project_id \notin DOMAIN d.Project THEN NotFound
    ELSE LET pid == IF f.project_id # 0 THEN f.project_id ELSE NewProjectId(d.Project)
             tags == HandleTags(d, pid, f.tags)
         IN
         Session([NoWrites EXCEPT
                     !.set = IF f.project_id # 0
                             THEN LET ch == Changed(d.Project[pid], FormColumns(f)) IN
                                  IF DOMAIN ch = {} THEN <<>> ELSE pid :> ch
                             ELSE <<>>,
                     !.ins = IF f.project_id # 0 THEN <<>>
                             ELSE pid :> Assign(NewProject(u), FormColumns(f)),
                     !.del.ProjectTag = tags.del,
                     !.add.ProjectTag = tags.add],
                 [op |-> "admin_save_project", code |-> 302, project_id |-> pid,
                  created |-> f.project_id = 0, tags |-> f.tags # <<>>])

(***************************************************************************)
(* admin_delete_project                                                    *)
(***************************************************************************)
\* Cascade that leaves the owned rows in place.
CascadeNothing(B, p) == EmptyBag

\* cascade='all, delete-orphan': the rows of B owned by project p go with it.
Cascade(B, p) == RowsOf(B, p)

AdminDeleteProject(d, u, p) ==
    IF ~admin_required(u) THEN Forbidden
    ELSE IF p \notin DOMAIN d.Project THEN NotFound
    ELSE Session([NoWrites EXCEPT
                     !.delp = {p},
                     !.del.Like = Cascade(d.Like, p),
                     !.del.Comment = Cascade(d.Comment, p),
                     !.del.ProjectTag = Cascade(d.ProjectTag, p)],
                 [op |-> "admin_delete_project", code |-> 302, project_id |-> p])

(***************************************************************************)
(* project_detail                                                          *)
(***************************************************************************)
\* A lookup by id alone, whatever the status.
AnyProject(P, p) == p \in DOMAIN P

\* Project.query.filter_by(id=p, status=PUBLISHED).first()
PublishedProject(P, p) == p \in DOMAIN P /\ P[p].status = PUBLISHED

\* The tag ids joined through ProjectTag for project p.
project_tags(PT, p) == {r.tag_id : r \in DOMAIN RowsOf(PT, p)}

ProjectDetail(d, p) ==
    IF ~PublishedProject(d.Project, p) THEN NotFound
    ELSE Session([NoWrites EXCEPT !.set = p :> [views |-> d.Project[p].views + 1]],
                 [op |-> "project_detail", code |-> 200])

(***************************************************************************)
(* projects: the public listing                                            *)
(***************************************************************************)
PerPage == 9

\* Column.contains(q): q occurs in s.
Contains(s, q) ==
    \E i \in 0..(Len(s) - Len(q)) : SubSeq(s, i + 1, i + Len(q)) = q

\* Tag.query.filter_by(name=tag_name).first(), as the set of matching ids
\* (Tag.name is unique).
TagByName(tag_name) == {t \in TagIds : TagName(t) = tag_name}

\* The base query without its status filter.
BaseQueryAll(P, p) == TRUE

\* filter_by(status=PUBLISHED), the base query of the listing.
BaseQuery(P, p) == P[p].status = PUBLISHED

\* How many rows of the filtered query are project p.
QueryRows(P, PT, p, category_id, tag_name, search_query) ==
    IF /\ BaseQuery(P, p)
       /\ category_id # 0 => P[p].category_id = category_id
       /\ search_query # <<>> =>
              \/ Contains(P[p].title, search_query)
              \/ Contains(P[p].description, search_query)
    THEN IF tag_name # "" /\ TagByName(tag_name) # {}
         THEN CopiesIn(ProjectTagRow(p, CHOOSE t \in TagByName(tag_name) : TRUE), PT)
         ELSE 1
    ELSE 0

RECURSIVE Repeat(_, _)
Repeat(x, n) == IF n = 0 THEN <<>> ELSE <<x>> \o Repeat(x, n - 1)

\* order_by(desc(created_at)): ids grow with creation time, so the newest
\* project is the one with the largest id.
RECURSIVE OrderedRows(_, _, _, _, _, _)
OrderedRows(P, PT, ids, category_id, tag_name, search_query) ==
    IF ids = {} THEN <<>>
    ELSE LET p == MaxOf(ids) IN
         Repeat(p, QueryRows(P, PT, p, category_id, tag_name, search_query))
         \o OrderedRows(P, PT, ids \ {p}, category_id, tag_name, search_query)

\* paginate(page=page, per_page=9, error_out=False).items
Paginate(rows, page) ==
    LET pg == IF page < 1 THEN 1 ELSE page
        first == (pg - 1) * PerPage + 1
        last == IF pg * PerPage < Len(rows) THEN pg * PerPage ELSE Len(rows)
    IN SubSeq(rows, first, last)

\* The items of the listing for the given filters.
ListProjects(P, PT, page, category_id, tag_name, search_query) ==
    Paginate(OrderedRows(P, PT, DOMAIN P, category_id, tag_name, search_query), page)

Projects(d, page, category_id, tag_name, search_query) ==
    Early([op |-> "projects", code |-> 200,
           items |-> ListProjects(d.Project, d.ProjectTag, page, category_id,
                                  tag_name, search_query)])

(***************************************************************************)
(* The requests the specifications draw from.                              *)
(***************************************************************************)
ContentInputs == {<<>>, <<" ">>, <<"h">>, <<" ", "h", " ">>}

Form(project_id, title, description, category_id, status, tags) ==
    [project_id |-> project_id, title |-> title, description |-> description,
     category_id |-> category_id, status |-> status, tags |-> tags]

\* The form that publishes a project with the first tag, for a new project
\* and for each existing one.
PlainForms == {Form(p, <<"a">>, <<>>, 0, "published", <<1>>) : p \in {0} \cup ProjectIds}

\* The forms that save a project as published or as a draft, with the first
\* tag.
EngagementForms ==
    {Form(p, <<"a">>, <<>>, 0, st, <<1>>) :
        p \in {0} \cup ProjectIds, st \in {"published", "draft"}}

TagLists == {<<>>, <<1>>, <<2>>, <<1, 2>>, <<1, 1>>}

\* Forms that vary every modelled field.
CatalogForms ==
    {Form(p, tc[1], tc[2], tc[3], st, tg) :
        p \in {0} \cup ProjectIds,
        tc \in {<<<<" ", "a", " ">>, <<>>, 0>>, <<<<"b">>, <<"a", "b">>, 1>>},
        st \in {"published", "draft", ""}, tg \in TagLists}

Pages == {0, 1, 2}
CategoryFilters == {0, 1, 2}
TagFilters == {"", "React", "Python", "Rust"}
SearchFilters == {<<>>, <<"a">>, <<"a", "b">>, <<"c">>}

\* The forms user u submits: admin_required turns a non-administrator away
\* before the form is read, so one form stands for all of them.
FormsOf(u, forms) ==
    IF admin_required(u) THEN forms ELSE {Form(0, <<>>, <<>>, 0, "", <<>>)}

Workers == {"w1", "w2"}
Idle == [commit |-> FALSE]

\* The store after db.create_all() and the seeding: no project yet.
EmptyStore ==
    [Project |-> <<>>, Like |-> EmptyBag, Comment |-> EmptyBag,
     ProjectTag |-> EmptyBag, Notification |-> EmptyBag]

Init ==
    /\ db = EmptyStore
    /\ store_up = TRUE
    /\ inflight = [w \in Workers |-> Idle]
    /\ resp = [op |-> "", code |-> 0]

\* A request handled from its first query to its response with no other
\* request in between.
Handle(req) ==
    /\ IF req.commit
       THEN Commit(req.writes, req.resp)
       ELSE /\ UNCHANGED db
            /\ resp' = req.resp
    /\ UNCHANGED <<store_up, inflight>>

toggle_like(u, p) == Handle(ToggleLike(db, u, p))
add_comment(u, p, raw) == Handle(AddComment(db, u, p, raw))
admin_save_project(u, f) == Handle(AdminSaveProject(db, u, f))
admin_delete_project(u, p) == Handle(AdminDeleteProject(db, u, p))
project_detail(p) == Handle(ProjectDetail(db, p))
projects(page, category_id, tag_name, search_query) ==
    Handle(Projects(db, page, category_id, tag_name, search_query))

(***************************************************************************)
(* Spec: the engagement and authoring requests, one request at a time.     *)
(***************************************************************************)
Next ==
    \/ \E u \in Users, p \in ProjectIds : toggle_like(u, p)
    \/ \E u \in Users, p \in ProjectIds, raw \in ContentInputs : add_comment(u, p, raw)
    \/ \E u \in Users, f \in PlainForms : admin_save_project(u, f)
    \/ \E u \in Users, p \in ProjectIds : admin_delete_project(u, p)
    \/ \E p \in ProjectIds : project_detail(p)
    \/ \E tag_name \in {"", "React"} : projects(1, 0, tag_name, <<>>)

Spec == Init /\ [][Next]_vars

(***************************************************************************)
(* SpecEngagement: the requests that write Like, Comment and Notification  *)
(* rows, and the authoring requests that create and delete the projects    *)
(* they refer to.                                                          *)
(***************************************************************************)
NextEngagement ==
    \/ \E u \in Users, p \in ProjectIds : toggle_like(u, p)
    \/ \E u \in Users, p \in ProjectIds, raw \in ContentInputs : add_comment(u, p, raw)
    \/ \E u \in Users, f \in EngagementForms : admin_save_project(u, f)
    \/ \E u \in Users, p \in ProjectIds : admin_delete_project(u, p)

SpecEngagement == Init /\ [][NextEngagement]_vars

(***************************************************************************)
(* SpecCatalog: authoring and the public listing, with every form field    *)
(* and every listing filter varied.                                        *)
(***************************************************************************)
NextCatalog ==
    \/ \E u \in Users : \E f \in FormsOf(u, CatalogForms) : admin_save_project(u, f)
    \/ \E u \in Users, p \in ProjectIds : admin_delete_project(u, p)
    \/ \E page \in Pages, category_id \in CategoryFilters,
          tag_name \in TagFilters, search_query \in SearchFilters :
              projects(page, category_id, tag_name, search_query)

SpecCatalog == Init /\ [][NextCatalog]_vars

(***************************************************************************)
(* SpecConcurrent: toggle_like and admin_save_project requests handled by  *)
(* two workers at once. A request reads the committed store when it        *)
(* begins, keeps its writes in its own session, and the store applies them *)
(* when it commits; what another request committed in between is neither   *)
(* seen by its queries nor undone by its writes. The run starts from the   *)
(* store that holds one published project without tags.                    *)
(***************************************************************************)
FirstProject ==
    Assign(NewProject("ana"), FormColumns(Form(0, <<"a">>, <<>>, 0, "published", <<>>)))

\* The forms that save the first project again, with each list of distinct
\* tag ids.
ConcurrentForms ==
    {Form(1, <<"a">>, <<>>, 0, "published", tg) : tg \in {<<>>, <<1>>, <<2>>, <<1, 2>>}}

InitConcurrent ==
    /\ db = [EmptyStore EXCEPT !.Project = 1 :> FirstProject]
    /\ store_up = TRUE
    /\ inflight = [w \in Workers |-> Idle]
    /\ resp = [op |-> "admin_save_project", code |-> 302, project_id |-> 1,
               created |-> TRUE, tags |-> FALSE]

\* A worker whose deletes of ProjectTag rows reach the committed store as
\* soon as the handler issues them.
BeginDeleteCommitted(w, req) ==
    /\ inflight[w] = Idle
    /\ IF req.commit
       THEN /\ inflight' = [inflight EXCEPT ![w] = req]
            /\ db' = [db EXCEPT !.ProjectTag = @ (-) req.writes.del.ProjectTag]
            /\ UNCHANGED resp
       ELSE /\ resp' = req.resp
            /\ UNCHANGED <<db, inflight>>
    /\ UNCHANGED store_up

\* Worker w takes a request and runs its handler up to the commit.
Begin(w, req) ==
    /\ inflight[w] = Idle
    /\ IF req.commit
       THEN /\ inflight' = [inflight EXCEPT ![w] = req]
            /\ UNCHANGED <<db, resp>>
       ELSE /\ resp' = req.resp
            /\ UNCHANGED <<db, inflight>>
    /\ UNCHANGED store_up

begin_toggle_like(w, u, p) == Begin(w, ToggleLike(db, u, p))
begin_admin_save_project(w, u, f) == Begin(w, AdminSaveProject(db, u, f))

\* Worker w reaches db.session.commit() and answers.
finish(w) ==
    /\ inflight[w].commit
    /\ Commit(inflight[w].writes, inflight[w].resp)
    /\ inflight' = [inflight EXCEPT ![w] = Idle]
    /\ UNCHANGED store_up

NextConcurrent ==
    \/ \E w \in Workers, u \in Users, p \in ProjectIds : begin_toggle_like(w, u, p)
    \/ \E w \in Workers, u \in Users :
          \E f \in FormsOf(u, ConcurrentForms) : begin_admin_save_project(w, u, f)
    \/ \E w \in Workers : finish(w)

SpecConcurrent == InitConcurrent /\ [][NextConcurrent]_vars

(***************************************************************************)
(* SpecLifecycle: every request that reads or writes a project, one at a   *)
(* time, with projects saved as published, as draft and without a status.  *)
(***************************************************************************)
\* The forms that save a project with each value of the status field.
LifecycleForms ==
    {Form(p, <<"a">>, <<>>, 0, st, <<>>) :
        p \in {0} \cup ProjectIds, st \in {"published", "draft", ""}}

NextLifecycle ==
    \/ \E p \in ProjectIds : toggle_like("bob", p)
    \/ \E p \in ProjectIds : add_comment("bob", p, <<"h">>)
    \/ \E u \in Users, f \in LifecycleForms : admin_save_project(u, f)
    \/ \E u \in Users, p \in ProjectIds : admin_delete_project(u, p)
    \/ \E p \in ProjectIds : project_detail(p)
    \/ projects(1, 0, "", <<>>)

SpecLifecycle == Init /\ [][NextLifecycle]_vars

(***************************************************************************)
(* SpecOutage: the requests that write, one at a time, against a store     *)
(* that may stop accepting commits and recover at any moment. A commit     *)
(* can fail because the store is down or because a constraint is broken    *)
(* (a tag id submitted twice).                                             *)
(***************************************************************************)
OutageForms ==
    {Form(p, <<"a">>, <<>>, 0, "published", tg) :
        p \in {0} \cup ProjectIds, tg \in {<<1>>, <<2>>, <<1, 1>>}}

\* The database behind SQLALCHEMY_DATABASE_URI becomes unreachable.
store_fails ==
    /\ store_up
    /\ store_up' = FALSE
    /\ UNCHANGED <<db, inflight, resp>>

\* The database is reachable again.
store_recovers ==
    /\ ~store_up
    /\ store_up' = TRUE
    /\ UNCHANGED <<db, inflight, resp>>

NextOutage ==
    \/ \E u \in Users, p \in ProjectIds : toggle_like(u, p)
    \/ \E p \in ProjectIds : add_comment("bob", p, <<"h">>)
    \/ \E u \in Users, f \in OutageForms : admin_save_project(u, f)
    \/ \E u \in Users, p \in ProjectIds : admin_delete_project(u, p)
    \/ store_fails
    \/ store_recovers

SpecOutage == Init /\ [][NextOutage]_vars

(***************************************************************************)
(* SpecReaders: one worker saves the first project again and again, each   *)
(* save replacing its tags, while the other worker toggles a like and      *)
(* readers query the committed store at any moment: the tag list of        *)
(* project_detail, the edit form and the tag-filtered listing. The store   *)
(* may stop accepting commits.                                             *)
(***************************************************************************)
ReaderForms ==
    {Form(1, <<"a">>, <<>>, 0, "published", tg) : tg \in {<<1>>, <<2>>, <<1, 2>>, <<1, 1>>}}

\* "Get project tags" of project_detail: the query that follows its commit.
ReadProjectTags(d, p) ==
    IF ~PublishedProject(d.Project, p) THEN NotFound
    ELSE Early([op |-> "project_tags", code |-> 200, project_id |-> p,
                tags |-> project_tags(d.ProjectTag, p)])

\* The edit form with the project's current tag ids.
AdminEditProject(d, u, p) ==
    IF ~admin_required(u) THEN Forbidden
    ELSE IF p \notin DOMAIN d.Project THEN NotFound
    ELSE Early([op |-> "admin_edit_project", code |-> 200, project_id |-> p,
                project_tag_ids |-> project_tags(d.ProjectTag, p)])

read_project_tags(p) == Handle(ReadProjectTags(db, p))
admin_edit_project(u, p) == Handle(AdminEditProject(db, u, p))

NextReaders ==
    \/ \E u \in Users, f \in ReaderForms : begin_admin_save_project("w1", u, f)
    \/ begin_toggle_like("w2", "bob", 1)
    \/ \E w \in Workers : finish(w)
    \/ \E p \in ProjectIds : read_project_tags(p)
    \/ \E u \in Users, p \in ProjectIds : admin_edit_project(u, p)
    \/ \E t \in TagIds : projects(1, 0, TagName(t), <<>>)
    \/ store_fails
    \/ store_recovers

SpecReaders == InitConcurrent /\ [][NextReaders]_vars

(***************************************************************************)
(* Properties                                                              *)
(***************************************************************************)
\* The Like, Comment and ProjectTag rows of project p.
LikesOf(d, p) == RowsOf(d.Like, p)
CommentsOf(d, p) == RowsOf(d.Comment, p)
TagsOf(d, p) == RowsOf(d.ProjectTag, p)

\* C1: in every state reached by requests run one at a time, every
\* project's likes_count equals the number of Like rows of that project.
C1_LikesCountMatchesRows ==
    \A p \in DOMAIN db.Project :
        db.Project[p].likes_count = BagCardinality(LikesOf(db, p))

\* Both users like one project, the other project exists and is liked by
\* one of them only, and the last request was an unlike.
C1_Witness ==
    /\ resp = [op |-> "toggle_like", code |-> 200, liked |-> FALSE]
    /\ \E p, q \in DOMAIN db.Project :
        /\ p # q
        /\ db.Project[p].likes_count = 2
        /\ db.Project[q].likes_count = 1

\* C2: a successful toggle_like(u, p) followed at once by toggle_like(u, p)
\* again leaves the Like rows and every project's likes_count as they were
\* before the first call, whether u had liked p or not.
C2_ToggleLikeIsItsOwnInverse ==
    [][\A u \in Users, p \in ProjectIds :
          (resp'.op = "toggle_like" /\ toggle_like(u, p)) =>
              LET second == ToggleLike(db', u, p) IN
              /\ second.commit
              /\ second.resp.liked = ~resp'.liked
              /\ Applicable(db', second.writes)
              /\ IntegrityOK(Apply(db', second.writes))
              /\ Apply(db', second.writes).Like = db.Like
              /\ DOMAIN Apply(db', second.writes).Project = DOMAIN db.Project
              /\ \A q \in DOMAIN db.Project :
                    Apply(db', second.writes).Project[q].likes_count
                        = db.Project[q].likes_count]_vars

\* A like was just undone while the other user's like on the same project
\* stays.
C2_Witness ==
    /\ resp = [op |-> "toggle_like", code |-> 200, liked |-> FALSE]
    /\ \E p \in DOMAIN db.Project :
        /\ db.Project[p].likes_count = 1
        /\ BagCardinality(db.Notification) = 1

\* The notification rows addressed to user a with the given type.
NotificationsFor(d, a, type) ==
    BagCardinality(BagFilter(d.Notification,
                             {r \in DOMAIN d.Notification : r.user_id = a /\ r.type = type}))

\* The store after the step holds the notifications of before plus n rows of
\* the given type addressed to user a.
Notified(a, type, n) ==
    /\ db.Notification \sqsubseteq db'.Notification
    /\ BagCardinality(db'.Notification) = BagCardinality(db.Notification) + n
    /\ NotificationsFor(db', a, type) = NotificationsFor(db, a, type) + n

\* C7: a toggle_like that creates a Like row and an add_comment that inserts
\* a Comment each add exactly one Notification addressed to the project's
\* author (type success for a like, info for a comment) when the actor is not
\* the author and none when the actor is the author; an unlike, a rejected
\* add_comment and every other request leave the Notification rows as they
\* were.
C7_NotificationsOnEngagement ==
    [][/\ \A u \in Users, p \in ProjectIds :
            (resp'.op = "toggle_like" /\ toggle_like(u, p)) =>
                LET a == db.Project[p].author_id IN
                IF resp'.liked
                THEN /\ BagCardinality(LikesOf(db', p)) = BagCardinality(LikesOf(db, p)) + 1
                     /\ Notified(a, "success", IF u # a THEN 1 ELSE 0)
                ELSE db'.Notification = db.Notification
       /\ \A u \in Users, p \in ProjectIds, raw \in ContentInputs :
            (resp'.op = "add_comment" /\ add_comment(u, p, raw)) =>
                LET a == db.Project[p].author_id IN
                IF resp'.flash = "Comment added successfully"
                THEN /\ BagCardinality(CommentsOf(db', p)) = BagCardinality(CommentsOf(db, p)) + 1
                     /\ Notified(a, "info", IF u # a THEN 1 ELSE 0)
                ELSE db'.Notification = db.Notification
       /\ resp'.op \notin {"toggle_like", "add_comment"}
            => db'.Notification = db.Notification]_vars

\* The author holds one notification of each type, and the author's own like
\* and comment on the same project added none.
C7_Witness ==
    \E p \in DOMAIN db.Project :
        LET a == db.Project[p].author_id IN
        /\ existing_like(db, a, p)
        /\ db.Project[p].likes_count = 2
        /\ NotificationsFor(db, a, "success") = 1
        /\ NotificationsFor(db, a, "info") = 1
        /\ BagCardinality(db.Notification) = 2

\* Content that is empty once its leading and trailing blanks are removed.
Blank(raw) == \A i \in 1..Len(raw) : raw[i] = " "

\* C8: add_comment on an existing project with content that is empty after
\* trimming is rejected: the store is left as it was (no Comment row, the
\* same comments_count, no Notification).
C8_EmptyCommentRejected ==
    [][\A u \in Users, p \in ProjectIds, raw \in ContentInputs :
          (Blank(raw) /\ p \in DOMAIN db.Project /\ add_comment(u, p, raw)) =>
              /\ db' = db
              /\ resp' = [op |-> "add_comment", code |-> 302,
                          flash |-> "Comment cannot be empty"]]_vars

\* A comment was rejected on a store that holds a project with a comment.
C8_Witness ==
    /\ resp = [op |-> "add_comment", code |-> 302, flash |-> "Comment cannot be empty"]
    /\ \E p \in DOMAIN db.Project : db.Project[p].comments_count = 1

\* C9: in every state reached by requests run one at a time, every
\* project's comments_count equals the number of Comment rows of that
\* project.
C9_CommentsCountMatchesRows ==
    \A p \in DOMAIN db.Project :
        db.Project[p].comments_count = BagCardinality(CommentsOf(db, p))

\* A commented project beside a project that was created after a delete and
\* has been viewed.
C9_Witness ==
    \E p, q \in DOMAIN db.Project :
        /\ db.Project[p].comments_count = 1
        /\ db.Project[q].comments_count = 0
        /\ db.Project[q].views = 1
        /\ db.Project[q].likes_count = 2

\* Every Comment, Like and ProjectTag row of store d references a project of d.
ReferencesExist(d) ==
    \A r \in DOMAIN d.Like \cup DOMAIN d.Comment \cup DOMAIN d.ProjectTag :
        r.project_id \in DOMAIN d.Project

\* No listing and no project_detail on store d yields project p.
NeverYields(d, p) ==
    /\ ProjectDetail(d, p) = NotFound
    /\ \A page \in Pages, category_id \in CategoryFilters,
          tag_name \in TagFilters, search_query \in SearchFilters :
            \A i \in DOMAIN ListProjects(d.Project, d.ProjectTag, page, category_id,
                                         tag_name, search_query) :
                ListProjects(d.Project, d.ProjectTag, page, category_id,
                             tag_name, search_query)[i] # p

\* C10: once admin_delete_project(p) has succeeded project p is gone and no
\* Comment, Like or ProjectTag row references it; in every state each
\* Comment, Like and ProjectTag row references an existing project, and no
\* listing or project_detail yields a project that does not exist.
C10_DeleteCascades ==
    /\ (resp.op = "admin_delete_project") =>
            /\ resp.project_id \notin DOMAIN db.Project
            /\ LikesOf(db, resp.project_id) = EmptyBag
            /\ CommentsOf(db, resp.project_id) = EmptyBag
            /\ TagsOf(db, resp.project_id) = EmptyBag
    /\ ReferencesExist(db)
    /\ \A p \in ProjectIds \ DOMAIN db.Project : NeverYields(db, p)

\* The last project was just deleted, and the comment a non-author had left
\* (its notification remains) went with its project.
C10_Witness ==
    /\ resp.op = "admin_delete_project"
    /\ DOMAIN db.Project = {}
    /\ db.Comment = EmptyBag /\ db.Like = EmptyBag /\ db.ProjectTag = EmptyBag
    /\ \E a \in Users : NotificationsFor(db, a, "info") = 1
    /\ \E a \in Users : NotificationsFor(db, a, "success") = 1

\* The elements of sequence s.
Range(s) == {s[i] : i \in DOMAIN s}

\* C4: for every combination of the listing's filters (a tag name that
\* matches no Tag row included) the listing holds published projects only,
\* and so does the listing last returned.
C4_ListingOnlyPublished ==
    /\ \A page \in Pages, category_id \in CategoryFilters,
          tag_name \in TagFilters, search_query \in SearchFilters :
            \A p \in Range(ListProjects(db.Project, db.ProjectTag, page, category_id,
                                        tag_name, search_query)) :
                p \in DOMAIN db.Project /\ db.Project[p].status = "published"
    /\ (resp.op = "projects") =>
            \A p \in Range(resp.items) :
                p \in DOMAIN db.Project /\ db.Project[p].status = "published"

\* A listing returned the published project alone while a draft with the
\* same title, description, category and tags exists.
C4_Witness ==
    /\ resp.op = "projects"
    /\ \E p, q \in DOMAIN db.Project :
        /\ resp.items = <<p>>
        /\ db.Project[q] = [db.Project[p] EXCEPT !.status = "draft"]
        /\ project_tags(db.ProjectTag, p) = {1, 2}
        /\ project_tags(db.ProjectTag, q) = {1, 2}

\* The forms that save an existing project with, and without, tag ids.
TaggedForms == {f \in CatalogForms : f.project_id # 0 /\ f.tags # <<>>}
UntaggedForms == {f \in CatalogForms : f.project_id # 0 /\ f.tags = <<>>}

\* C5 as claimed: admin_save_project on an existing project p with a
\* non-empty list of tag ids, repeated ids allowed, leaves p with exactly one
\* ProjectTag row per distinct submitted id and no other row.
C5_TagsReplacedDeduplicated ==
    [][(resp'.op \in {"admin_save_project", "internal_error"}) =>
          \A u \in Users, f \in TaggedForms :
              (/\ admin_required(u)
               /\ f.project_id \in DOMAIN db.Project
               /\ admin_save_project(u, f)) =>
                  /\ project_tags(db'.ProjectTag, f.project_id) = Range(f.tags)
                  /\ \A t \in Range(f.tags) :
                        CopiesIn(ProjectTagRow(f.project_id, t), db'.ProjectTag) = 1]_vars

\* C6 as claimed: saving an existing project that has ProjectTag rows with an
\* empty tags field leaves it with no ProjectTag row.
C6_EmptyTagsClear ==
    [][(resp'.op \in {"admin_save_project", "internal_error"}) =>
          \A u \in Users, f \in UntaggedForms :
              (/\ admin_required(u)
               /\ f.project_id \in DOMAIN db.Project
               /\ TagsOf(db, f.project_id) # EmptyBag
               /\ admin_save_project(u, f)) =>
                  TagsOf(db', f.project_id) = EmptyBag]_vars

\* C6 as amended: saving an existing project that has ProjectTag rows with an
\* empty tags field leaves every ProjectTag row as it was.
C6_EmptyTagsKeep ==
    [][(resp'.op = "admin_save_project") =>
          \A u \in Users, f \in UntaggedForms :
              (/\ admin_required(u)
               /\ f.project_id = resp'.project_id
               /\ f.project_id \in DOMAIN db.Project
               /\ TagsOf(db, f.project_id) # EmptyBag
               /\ admin_save_project(u, f)) =>
                  /\ db'.ProjectTag = db.ProjectTag
                  /\ TagsOf(db', f.project_id) # EmptyBag]_vars

\* An existing project was just saved without a tags field and holds two
\* ProjectTag rows.
C6_Witness ==
    /\ resp.op = "admin_save_project"
    /\ ~resp.created
    /\ ~resp.tags
    /\ project_tags(db.ProjectTag, resp.project_id) = {1, 2}

\* C3: in every committed state, under any interleaving of toggle_like and
\* admin_save_project requests, no two Like rows share (user_id, project_id)
\* and no two ProjectTag rows share (project_id, tag_id).
C3_UniquePairs ==
    /\ \A u \in Users, p \in ProjectIds : CopiesIn(LikeRow(u, p), db.Like) <= 1
    /\ \A p \in ProjectIds, t \in TagIds : CopiesIn(ProjectTagRow(p, t), db.ProjectTag) <= 1

\* A commit was just refused for a row that a request committed in between
\* had added, and the store holds a Like row and both ProjectTag rows.
C3_Witness ==
    /\ resp.op = "internal_error" /\ resp.error = "IntegrityError"
    /\ \A w \in Workers : inflight[w] = Idle
    /\ \E u \in Users : existing_like(db, u, 1)
    /\ project_tags(db.ProjectTag, 1) = {1, 2}

\* The projects of the store after the step, other than `saved`, were there
\* before it with the same status.
StatusKept(saved) ==
    \A q \in DOMAIN db'.Project \ saved :
        q \in DOMAIN db.Project /\ db'.Project[q].status = db.Project[q].status

\* C11: a step that is not a successful admin_save_project creates no project
\* and changes no project's status; a successful admin_save_project leaves
\* the project it saved or created published exactly when its form said
\* status=published (draft otherwise, a missing status included) and leaves
\* the status of every other project alone. So a project is published only
\* if the latest save applied to it requested published.
C11_StatusLifecycle ==
    [][/\ (resp'.op # "admin_save_project") => StatusKept({})
       /\ (resp'.op = "admin_save_project") =>
             \A u \in Users, f \in LifecycleForms :
                 admin_save_project(u, f) =>
                     /\ resp'.project_id \in DOMAIN db'.Project
                     /\ resp'.created = (resp'.project_id \notin DOMAIN db.Project)
                     /\ (db'.Project[resp'.project_id].status = PUBLISHED)
                            = (f.status = "published")
                     /\ (db'.Project[resp'.project_id].status = DRAFT)
                            = (f.status # "published")
                     /\ StatusKept({resp'.project_id})]_vars

\* A project that was published, viewed and liked has just been saved again
\* as a draft, next to a project created without a status.
C11_Witness ==
    /\ resp.op = "admin_save_project"
    /\ ~resp.created
    /\ DOMAIN db.Project = ProjectIds
    /\ db.Project[resp.project_id].status = DRAFT
    /\ db.Project[resp.project_id].views = 1
    /\ db.Project[resp.project_id].likes_count = 1
    /\ \E q \in ProjectIds \ {resp.project_id} : db.Project[q].status = DRAFT

\* Project p exists in the store before the step and is published.
Visible(p) == p \in DOMAIN db.Project /\ db.Project[p].status = "published"

\* C12: project_detail(p) answers 200 only for an existing published project,
\* and then the store differs from the one before in exactly one column:
\* that project's views, one higher. For a draft or an unknown id it answers
\* not-found and the store is as before. No step of any request lowers the
\* views of a project, so n successful fetches in a row raise it by n.
C12_ProjectDetailViews ==
    [][/\ (resp'.op = "project_detail") =>
             \A p \in ProjectIds :
                 project_detail(p) =>
                     /\ Visible(p)
                     /\ resp'.code = 200
                     /\ db' = [db EXCEPT !.Project[p].views = @ + 1]
       /\ (resp'.op = "not_found") =>
             \A p \in ProjectIds :
                 (~Visible(p) /\ project_detail(p)) =>
                     resp'.code = 404 /\ db' = db
       /\ \A p \in ProjectIds :
             (Visible(p) /\ project_detail(p)) =>
                 resp'.op = "project_detail"
       /\ \A p \in DOMAIN db.Project \cap DOMAIN db'.Project :
             db'.Project[p].views >= db.Project[p].views]_vars

\* A published project has just been fetched for the second time, while the
\* other project is a draft that was never fetched.
C12_Witness ==
    /\ resp.op = "project_detail"
    /\ \E p \in DOMAIN db.Project, q \in DOMAIN db.Project :
          /\ db.Project[p].status = PUBLISHED /\ db.Project[p].views = 2
          /\ db.Project[q].status = DRAFT /\ db.Project[q].views = 0

\* Every project's counters equal the rows that refer to it, in store d.
CountersMatchRows(d) ==
    \A p \in DOMAIN d.Project :
        /\ d.Project[p].likes_count = BagCardinality(LikesOf(d, p))
        /\ d.Project[p].comments_count = BagCardinality(CommentsOf(d, p))

\* C13: a request whose commit fails (the store is down, or a constraint is
\* broken) answers 500 and leaves the committed store exactly as it was:
\* no row of it persists and no counter changes. And while the store is
\* down no request changes the committed store. In every committed state
\* each project's likes_count and comments_count equal its Like and Comment
\* rows, so no state has the row without the counter or the reverse.
C13_AllOrNothing ==
    [][/\ (resp'.code = 500) => db' = db
       /\ ~store_up => db' = db
       /\ CountersMatchRows(db')]_vars

\* A commit has just failed while the store was down, and the store still
\* holds the Like, Comment, ProjectTag and Notification rows and the counters
\* committed before.
C13_Witness ==
    /\ ~store_up
    /\ resp.op = "internal_error" /\ resp.error = "OperationalError"
    /\ \E p \in DOMAIN db.Project :
          /\ db.Project[p].likes_count = 2
          /\ db.Project[p].comments_count = 1
          /\ project_tags(db.ProjectTag, p) = {2}
    /\ BagCardinality(db.Notification) = 2

\* C14 as claimed: under any interleaving of concurrent toggle_like requests,
\* once every request has finished (committed or rolled back), each project's
\* likes_count equals the number of its Like rows.
C14_ConcurrentLikesCounted ==
    (\A w \in Workers : inflight[w] = Idle) =>
        \A p \in DOMAIN db.Project :
            db.Project[p].likes_count = BagCardinality(LikesOf(db, p))

\* The tag ids of a bag of ProjectTag rows.
TagIdsOf(B) == {r.tag_id : r \in DOMAIN B}

\* Worker w is inside an admin_save_project that replaces tags: it has
\* issued its delete and its inserts and has not committed yet.
Saving(w) ==
    /\ inflight[w].commit
    /\ inflight[w].resp.op = "admin_save_project"
    /\ inflight[w].resp.tags

\* C15: while a save replaces the tags of project P from the set S it found
\* to the set T it submits, the committed tag set of P is S, and every
\* reader (the tag list of project_detail, the edit form, the tag-filtered
\* listing) observes exactly S; the commit of the save turns it into exactly
\* T, one row per tag, in one step, or leaves it S when the commit fails. No
\* other step changes any ProjectTag row.
C15_TagReplacementAtomic ==
    [][/\ \A w \in Workers :
             Saving(w) =>
                 LET P == inflight[w].resp.project_id
                     S == TagIdsOf(inflight[w].writes.del.ProjectTag)
                     T == TagIdsOf(inflight[w].writes.add.ProjectTag)
                 IN
                 /\ project_tags(db.ProjectTag, P) = S
                 /\ (resp'.op = "project_tags" /\ read_project_tags(P)) => resp'.tags = S
                 /\ (resp'.op = "admin_edit_project") =>
                        \A u \in Users : admin_edit_project(u, P) => resp'.project_tag_ids = S
                 /\ (resp'.op = "projects") =>
                        \A t \in TagIds :
                            projects(1, 0, TagName(t), <<>>) =>
                                ((P \in Range(resp'.items)) = (t \in S))
                 /\ IF inflight'[w] = Idle
                    THEN IF resp'.code = 500
                         THEN db'.ProjectTag = db.ProjectTag
                         ELSE /\ T # {}
                              /\ project_tags(db'.ProjectTag, P) = T
                              /\ \A t \in T : CopiesIn(ProjectTagRow(P, t), db'.ProjectTag) = 1
                    ELSE db'.ProjectTag = db.ProjectTag
       /\ (\A w \in Workers : ~Saving(w)) => db'.ProjectTag = db.ProjectTag]_vars

\* A reader has just been shown the tag set {1} of the first project while a
\* save that replaces it with {2} has issued its writes and not committed.
C15_Witness ==
    /\ resp.op = "project_tags" /\ resp.project_id = 1 /\ resp.tags = {1}
    /\ Saving("w1")
    /\ TagIdsOf(inflight["w1"].writes.del.ProjectTag) = {1}
    /\ TagIdsOf(inflight["w1"].writes.add.ProjectTag) = {2}
    /\ project_tags(db.ProjectTag, 1) = {1}

====
